---- MODULE Spec2Model ----
(***************************************************************************)
(* A model of scripts/bump_version.py: the commit-message classifier, the  *)
(* version arithmetic, the two manifest writers and main().                *)
(*                                                                         *)
(* Text is modelled as a sequence of one-character strings, so that        *)
(* str.strip, str.lower, str.startswith, str.split, the regular            *)
(* expressions and the decimal conversions are computed character by       *)
(* character, as the interpreter computes them.                            *)
(***************************************************************************)
EXTENDS Integers, Sequences, FiniteSets, TLC

\* ------------------------------------------------------------------ bounds

\* Largest version component the generated version strings hold.
MaxComp == 109
\* Longest manifest, in lines, given to the line scanner.
MaxLines == 4
\* Number of successive runs of the tool on the same project directory.
MaxRuns == 2

\* ------------------------------------------------------- characters, text

UpperCase == <<"A","B","C","D","E","F","G","H","I","J","K","L","M",
               "N","O","P","Q","R","S","T","U","V","W","X","Y","Z">>
LowerCase == <<"a","b","c","d","e","f","g","h","i","j","k","l","m",
               "n","o","p","q","r","s","t","u","v","w","x","y","z">>
Digits == <<"0","1","2","3","4","5","6","7","8","9">>

\* str.isspace of one (ASCII) character: what str.strip() removes and what
\* \s matches.
IsSpace(c) == c \in {" ", "\t", "\n", "\r"}

\* \d of one (ASCII) character.
IsDigit(c) == \E d \in 1..10 : Digits[d] = c

\* int() of one digit.
DigitVal(c) == (CHOOSE d \in 1..10 : Digits[d] = c) - 1

\* str.lower() of one character.
LowerChar(c) ==
    IF \E k \in 1..26 : UpperCase[k] = c
    THEN LowerCase[CHOOSE k \in 1..26 : UpperCase[k] = c]
    ELSE c

\* str.lower()
Lower(s) == [k \in 1..Len(s) |-> LowerChar(s[k])]

\* str.strip(): drops the leading and the trailing whitespace.
Strip(s) ==
    IF \A k \in 1..Len(s) : IsSpace(s[k])
    THEN << >>
    ELSE LET first == CHOOSE k \in 1..Len(s) :
                          /\ ~IsSpace(s[k])
                          /\ \A j \in 1..(k - 1) : IsSpace(s[j])
             last  == CHOOSE k \in 1..Len(s) :
                          /\ ~IsSpace(s[k])
                          /\ \A j \in (k + 1)..Len(s) : IsSpace(s[j])
         IN  SubSeq(s, first, last)

\* str.startswith(p)
StartsWith(s, p) == Len(s) >= Len(p) /\ SubSeq(s, 1, Len(p)) = p

\* s[i:].startswith(p), 1-based
HasAt(s, i, p) ==
    /\ i + Len(p) - 1 <= Len(s)
    /\ \A k \in 1..Len(p) : s[i + k - 1] = p[k]

\* str.split('\n'): always at least one piece; a trailing newline gives a
\* last empty piece.
RECURSIVE SplitFrom(_, _, _)
SplitFrom(s, i, cur) ==
    IF i > Len(s) THEN << cur >>
    ELSE IF s[i] = "\n" THEN << cur >> \o SplitFrom(s, i + 1, << >>)
    ELSE SplitFrom(s, i + 1, Append(cur, s[i]))

SplitLines(s) == SplitFrom(s, 1, << >>)

\* '\n'.join(lines)
RECURSIVE JoinLines(_)
JoinLines(lines) ==
    IF Len(lines) = 0 THEN << >>
    ELSE IF Len(lines) = 1 THEN lines[1]
    ELSE lines[1] \o <<"\n">> \o JoinLines(Tail(lines))

\* Index of the first character at or after i that is not whitespace
\* (Len(s)+1 when there is none): the greedy \s* of the patterns.
RECURSIVE SkipSpace(_, _)
SkipSpace(s, i) ==
    IF i <= Len(s) /\ IsSpace(s[i]) THEN SkipSpace(s, i + 1) ELSE i

\* Index after the maximal run of digits that starts at i: the greedy \d+.
RECURSIVE SkipDigits(_, _)
SkipDigits(s, i) ==
    IF i <= Len(s) /\ IsDigit(s[i]) THEN SkipDigits(s, i + 1) ELSE i

\* Index of the first '"' at or after i (Len(s)+1 when there is none): the
\* greedy [^"]+ followed by '"'.
RECURSIVE SkipToQuote(_, _)
SkipToQuote(s, i) ==
    IF i <= Len(s) /\ s[i] # "\"" THEN SkipToQuote(s, i + 1) ELSE i

\* int() of a run of digits.
RECURSIVE ToInt(_)
ToInt(ds) ==
    IF Len(ds) = 0 THEN 0
    ELSE 10 * ToInt(SubSeq(ds, 1, Len(ds) - 1)) + DigitVal(ds[Len(ds)])

\* The f-string rendering of a non-negative int.
RECURSIVE Dec(_)
Dec(n) ==
    IF n < 10 THEN << Digits[n + 1] >>
    ELSE Dec(n \div 10) \o << Digits[(n % 10) + 1] >>

\* get_bump_type_from_commit's None.
None == "None"

\* Text is a sequence of one-character strings; an absent optional text (no
\* sys.argv[2], a file that does not exist) and a raised exception are
\* one-element sequences that no text equals.
Absent == << "absent" >>
ValueError == << "ValueError" >>
FileNotFoundError == << "FileNotFoundError" >>
JSONDecodeError == << "JSONDecodeError" >>
AttributeError == << "AttributeError" >>
NoError == << "ok" >>

\* ------------------------------------------------------ version arithmetic

\* re.match(r'(\d+)\.(\d+)\.(\d+)', version_str): the three components, or
\* ValueError. Each \d+ is greedy and the character after the first two must
\* be a dot, so the match is the one below or there is none (<< >>, where
\* the code raises ValueError).
parse_version(version_str) ==
    LET e1 == SkipDigits(version_str, 1)
        e2 == SkipDigits(version_str, e1 + 1)
        e3 == SkipDigits(version_str, e2 + 1)
    IN  IF /\ e1 > 1
           /\ HasAt(version_str, e1, <<".">>)
           /\ e2 > e1 + 1
           /\ HasAt(version_str, e2, <<".">>)
           /\ e3 > e2 + 1
        THEN << ToInt(SubSeq(version_str, 1, e1 - 1)),
                ToInt(SubSeq(version_str, e1 + 1, e2 - 1)),
                ToInt(SubSeq(version_str, e2 + 1, e3 - 1)) >>
        ELSE << >>

\* bump_version with a minor bump that keeps the patch component.
bump_version_KeepPatch(version_str, bump_type) ==
    LET v == parse_version(version_str)
    IN  IF v = << >> THEN ValueError
        ELSE IF bump_type = "major" THEN Dec(v[1] + 1) \o <<".", "0", ".", "0">>
        ELSE IF bump_type = "minor"
             THEN Dec(v[1]) \o <<".">> \o Dec(v[2] + 1) \o <<".">> \o Dec(v[3])
        ELSE IF bump_type = "patch"
             THEN Dec(v[1]) \o <<".">> \o Dec(v[2]) \o <<".">> \o Dec(v[3] + 1)
        ELSE version_str

bump_version(version_str, bump_type) ==
    LET v == parse_version(version_str)
    IN  IF v = << >> THEN ValueError
        ELSE IF bump_type = "major" THEN Dec(v[1] + 1) \o <<".", "0", ".", "0">>
        ELSE IF bump_type = "minor"
             THEN Dec(v[1]) \o <<".">> \o Dec(v[2] + 1) \o <<".", "0">>
        ELSE IF bump_type = "patch"
             THEN Dec(v[1]) \o <<".">> \o Dec(v[2]) \o <<".">> \o Dec(v[3] + 1)
        ELSE version_str

\* -------------------------------------------------------------- classifier

\* The classifier without .lower().
get_bump_type_CaseSensitive(commit_msg) ==
    LET msg == Strip(commit_msg)
    IN  IF StartsWith(msg, <<"r","e","l","e","a","s","e","(">>) THEN "major"
        ELSE IF StartsWith(msg, <<"f","e","a","t","u","r","e","(">>) THEN "minor"
        ELSE IF StartsWith(msg, <<"f","i","x","(">>) THEN "patch"
        ELSE None

get_bump_type_from_commit(commit_msg) ==
    LET msg == Lower(Strip(commit_msg))
    IN  IF StartsWith(msg, <<"r","e","l","e","a","s","e","(">>) THEN "major"
        ELSE IF StartsWith(msg, <<"f","e","a","t","u","r","e","(">>) THEN "minor"
        ELSE IF StartsWith(msg, <<"f","i","x","(">>) THEN "patch"
        ELSE None

\* ---------------------------------------------------------------- patterns

Quote == "\""
VersionWord == <<"v","e","r","s","i","o","n">>
PackageHeader == <<"[","p","a","c","k","a","g","e","]">>

\* The pattern  version\s*=\s*"[^"]+"  tried at index i of s: whether it
\* matches, where the quoted value lies (vfrom..vto) and the index of the
\* closing quote. It is the common part of the three patterns of
\* get_current_version and update_cargo_toml.
MatchVersionAt(s, i) ==
    LET eq == SkipSpace(s, i + Len(VersionWord))
        oq == SkipSpace(s, eq + 1)
        cq == SkipToQuote(s, oq + 1)
    IN  [ok    |-> /\ HasAt(s, i, VersionWord)
                   /\ HasAt(s, eq, <<"=">>)
                   /\ HasAt(s, oq, <<Quote>>)
                   /\ cq <= Len(s)
                   /\ cq > oq + 1,
         vfrom |-> oq + 1,
         vto   |-> cq - 1,
         close |-> cq]

\* re.search(r'^version\s*=\s*"([^"]+)"', content, re.MULTILINE): the
\* positions where ^ matches are the start of the text and the index after
\* every newline; the first position that matches wins.
get_current_version(content) ==
    IF content = Absent THEN FileNotFoundError
    ELSE LET starts == { i \in 1..Len(content) :
                           /\ i = 1 \/ content[i - 1] = "\n"
                           /\ MatchVersionAt(content, i).ok }
         IN  IF starts = {} THEN ValueError
             ELSE LET i == CHOOSE k \in starts : \A j \in starts : k <= j
                      m == MatchVersionAt(content, i)
                  IN  SubSeq(content, m.vfrom, m.vto)

\* re.match(r'^\s*version\s*=\s*"[^"]+"', line)
LineMatchesVersion(line) == MatchVersionAt(line, SkipSpace(line, 1)).ok

\* re.sub(r'(version\s*=\s*")[^"]+(")', rf'\g<1>{new_version}\g<2>', line)
\* from index i on: every non-overlapping match, leftmost first.
RECURSIVE SubVersion(_, _, _)
SubVersion(line, new_version, i) ==
    LET hits == { p \in i..Len(line) : MatchVersionAt(line, p).ok }
    IN  IF hits = {} THEN SubSeq(line, i, Len(line))
        ELSE LET p == CHOOSE k \in hits : \A j \in hits : k <= j
                 m == MatchVersionAt(line, p)
             IN  SubSeq(line, i, m.vfrom - 1) \o new_version \o << Quote >>
                   \o SubVersion(line, new_version, m.close + 1)

\* ------------------------------------------- the structured-text writer

\* The loop state of update_cargo_toml before the first line.
ScanInit ==
    [in_package_section |-> FALSE,
     version_updated    |-> FALSE,
     updated_lines      |-> << >>]

\* The loop body with the header compared without .strip().
ScanLine_ExactHeader(st, line, new_version) ==
    IF line = PackageHeader
    THEN [st EXCEPT !.in_package_section = TRUE,
                    !.updated_lines = Append(@, line)]
    ELSE LET inside ==
                 IF /\ st.in_package_section
                    /\ StartsWith(Strip(line), <<"[">>)
                    /\ Strip(line) # PackageHeader
                 THEN FALSE
                 ELSE st.in_package_section
         IN  IF inside /\ LineMatchesVersion(line)
             THEN [in_package_section |-> inside,
                   version_updated    |-> TRUE,
                   updated_lines      |->
                       Append(st.updated_lines, SubVersion(line, new_version, 1))]
             ELSE [in_package_section |-> inside,
                   version_updated    |-> st.version_updated,
                   updated_lines      |-> Append(st.updated_lines, line)]

\* One iteration of the for loop of update_cargo_toml.
ScanLine(st, line, new_version) ==
    IF Strip(line) = PackageHeader
    THEN [st EXCEPT !.in_package_section = TRUE,
                    !.updated_lines = Append(@, line)]
    ELSE LET inside ==
                 IF /\ st.in_package_section
                    /\ StartsWith(Strip(line), <<"[">>)
                    /\ Strip(line) # PackageHeader
                 THEN FALSE
                 ELSE st.in_package_section
         IN  IF inside /\ LineMatchesVersion(line)
             THEN [in_package_section |-> inside,
                   version_updated    |-> TRUE,
                   updated_lines      |->
                       Append(st.updated_lines, SubVersion(line, new_version, 1))]
             ELSE [in_package_section |-> inside,
                   version_updated    |-> st.version_updated,
                   updated_lines      |-> Append(st.updated_lines, line)]

\* The loop state after the first n of the lines.
RECURSIVE ScanUpTo(_, _, _)
ScanUpTo(lines, n, new_version) ==
    IF n = 0 THEN ScanInit
    ELSE ScanLine(ScanUpTo(lines, n - 1, new_version), lines[n], new_version)

\* The text the file holds after the loop, given the loop's last state.
ScanWrite(content, st) ==
    IF st.version_updated THEN JoinLines(st.updated_lines) ELSE content

\* update_cargo_toml(file_path, new_version) on a file holding content: what
\* it returns and what the file holds afterwards.
update_cargo_toml(content, new_version) ==
    LET lines == SplitLines(content)
        st    == ScanUpTo(lines, Len(lines), new_version)
    IN  [ret |-> st.version_updated, content |-> ScanWrite(content, st)]

\* ---------------------------------------- the structured-document writer

\* A file of tauri.conf.json is described by what its bytes determine: whether
\* it is JSON at all ("garbage" is not), whether the top-level value is an
\* object or an array, the layout of the text (style) and the members of the
\* object in file order, duplicates included. A value is a string (its
\* characters), or a number, or null.
JStr(chars) == [t |-> "str", s |-> chars]
JNum(chars) == [t |-> "num", s |-> chars]
JNull == [t |-> "null", s |-> << >>]

NoDoc == [kind |-> "absent", style |-> "", pairs |-> << >>]
Document(kind, style, pairs) == [kind |-> kind, style |-> style, pairs |-> pairs]

\* The layout json.dumps(data, indent=2) + '\n' writes.
DumpStyle == "indent2+newline"

\* dict[key] = val: an existing key keeps its place, a new one goes last.
DictSet(d, key, val) ==
    IF \E k \in 1..Len(d) : d[k].key = key
    THEN [k \in 1..Len(d) |-> IF d[k].key = key THEN [key |-> key, val |-> val]
                                               ELSE d[k]]
    ELSE Append(d, [key |-> key, val |-> val])

\* dict.get(key): the value, or None.
DictGet(d, key) ==
    IF \E k \in 1..Len(d) : d[k].key = key
    THEN d[CHOOSE k \in 1..Len(d) : d[k].key = key].val
    ELSE JNull

\* json.loads of an object: the members are inserted in file order, so the
\* last of two duplicates gives the value and the first the place.
RECURSIVE LoadPairs(_, _)
LoadPairs(pairs, n) ==
    IF n = 0 THEN << >>
    ELSE DictSet(LoadPairs(pairs, n - 1), pairs[n].key, pairs[n].val)

json_loads(doc) == LoadPairs(doc.pairs, Len(doc.pairs))

\* json.dumps(data, indent=2) + '\n'
json_dumps(data) == Document("object", DumpStyle, data)

\* The writer without the comparison: it always sets the key and writes.
update_tauri_conf_AlwaysWrite(doc, new_version) ==
    IF doc.kind = "garbage"
    THEN [exc |-> JSONDecodeError, ret |-> FALSE, content |-> doc]
    ELSE IF doc.kind = "array"
    THEN [exc |-> AttributeError, ret |-> FALSE, content |-> doc]
    ELSE [exc     |-> NoError,
          ret     |-> DictGet(json_loads(doc), "version") # JStr(new_version),
          content |-> json_dumps(DictSet(json_loads(doc), "version",
                                         JStr(new_version)))]

\* update_tauri_conf(file_path, new_version) on a file holding doc: the
\* exception it raises (NoError when none), what it returns and what the file
\* holds afterwards.
update_tauri_conf(doc, new_version) ==
    IF doc.kind = "garbage"
    THEN [exc |-> JSONDecodeError, ret |-> FALSE, content |-> doc]
    ELSE IF doc.kind = "array"
    THEN [exc |-> AttributeError, ret |-> FALSE, content |-> doc]
    ELSE LET data == json_loads(doc)
         IN  IF DictGet(data, "version") # JStr(new_version)
             THEN [exc     |-> NoError,
                   ret     |-> TRUE,
                   content |-> json_dumps(DictSet(data, "version", JStr(new_version)))]
             ELSE [exc |-> NoError, ret |-> FALSE, content |-> doc]

\* ------------------------------------------------------------------- state

VARIABLES
    argv,             \* [msg, base]: sys.argv[1] and sys.argv[2] (Absent when not given)
    fs,               \* [root, tcargo, tconf]: Cargo.toml, src-tauri/Cargo.toml,
                      \* src-tauri/tauri.conf.json
    pc,               \* where main() is
    bump_type,        \* locals of main()
    current_version,
    version_to_bump,
    new_version,
    updated,
    stdout,           \* which message main printed
    exc,              \* the uncaught exception, NoError when none
    exit_status,      \* the process's exit code, -1 while it runs
    runs,             \* the number of the run (1 is the first)
    fs0,              \* the files as the current run found them
    hist,             \* what the earlier runs ended with
    scan,             \* a call of update_cargo_toml, line by line
    call              \* calls of update_tauri_conf on fs.tconf

vars == << argv, fs, pc, bump_type, current_version, version_to_bump,
           new_version, updated, stdout, exc, exit_status, runs, fs0, hist,
           scan, call >>

locals == << bump_type, current_version, version_to_bump, new_version, updated >>

Running == -1
NoScan == [active |-> FALSE]
NoCall == [active |-> FALSE]

\* ------------------------------------------------------------------ inputs

\* Lines of manifests.
LPackage ==
    <<"[","p","a","c","k","a","g","e","]">>
LPackageSp ==
    <<" ","[","p","a","c","k","a","g","e","]"," ">>
LDeps ==
    <<"[","d","e","p","e","n","d","e","n","c","i","e","s",".","f","o","o","]">>
LWorkspace ==
    <<"[","w","o","r","k","s","p","a","c","e",".","p","a","c","k","a","g","e","]">>
LName ==
    <<"n","a","m","e"," ","="," ","\"","x","\"">>
LVer123 ==
    <<"v","e","r","s","i","o","n"," ","="," ","\"","1",".","2",".","3","\"">>
LVer124 ==
    <<"v","e","r","s","i","o","n"," ","="," ","\"","1",".","2",".","4","\"">>
LVer123Beta ==
    <<"v","e","r","s","i","o","n"," ","="," ","\"","1",".","2",".","3","-","b","e","t","a",".","1","\"">>
LVerBad ==
    <<"v","e","r","s","i","o","n"," ","="," ","\"","a","b","c","\"">>
LVerIndented ==
    <<"\t","v","e","r","s","i","o","n","=","\"","1",".","2",".","3","\"">>
LVer090 ==
    <<"v","e","r","s","i","o","n"," ","="," ","\"","0",".","9",".","0","\"">>

\* Version texts.
V123 ==
    <<"1",".","2",".","3">>
V124 ==
    <<"1",".","2",".","4">>
V122 ==
    <<"1",".","2",".","2">>
V999 ==
    <<"9",".","9",".","9">>
VBad ==
    <<"v","1",".","2">>

\* Commit messages.
MsgFix ==
    <<"f","i","x","(","c","o","r","e",")",":"," ","p","a","t","c","h"," ","b","u","g">>
MsgFeature ==
    <<"f","e","a","t","u","r","e","(","a","p","i",")",":"," ","a","d","d"," ","e","n","d","p","o","i","n","t">>
MsgRelease ==
    <<" ","R","e","l","e","a","s","e","(","m","a","j","o","r",")",":"," ","c","u","t"," ","r","e","l","e","a","s","e"," ">>
MsgChore ==
    <<"c","h","o","r","e",":"," ","c","l","e","a","n","u","p">>

\* Manifests of the runs of main().
RootNormal == JoinLines(<< LPackage, LName, LVer123, << >> >>)
RootWorkspace == JoinLines(<< LWorkspace, LVer123, LPackage, LName >>)
RootNoVersion == JoinLines(<< LPackage, LName >>)
RootSuffix == JoinLines(<< LPackageSp, LVer123Beta >>)
RootBadVersion == JoinLines(<< LPackage, LVerBad >>)
RootIndented == JoinLines(<< LPackage, LVerIndented, LDeps, LVer090 >>)

RootFiles ==
    { RootNormal, RootWorkspace, RootNoVersion, RootSuffix, RootBadVersion,
      RootIndented, Absent }

TauriCargoFiles ==
    { Absent,
      JoinLines(<< LPackage, LVer123 >>),
      JoinLines(<< LPackage, LVer124 >>),
      JoinLines(<< LPackage, LName >>) }

Member(key, val) == [key |-> key, val |-> val]

TauriConfFiles ==
    { NoDoc,
      Document("garbage", "", << >>),
      Document("array", "compact", << >>),
      Document("object", "compact",
               << Member("productName", JStr(<<"x">>)), Member("version", JStr(V123)) >>),
      Document("object", DumpStyle,
               << Member("version", JStr(V124)), Member("productName", JStr(<<"x">>)) >>),
      Document("object", "indent4", << Member("productName", JStr(<<"x">>)) >>) }

CommitMsgs == { MsgFix, MsgFeature, MsgRelease, MsgChore, Absent }

BaseVersions == { Absent, << >>, V123, V122, VBad }

\* -------------------------------------------------------------------- main

\* The state before the first statement of main() of run n on the files f.
Fresh(n, f) ==
    /\ pc = "start"
    /\ bump_type = None
    /\ current_version = Absent
    /\ version_to_bump = Absent
    /\ new_version = Absent
    /\ updated = << >>
    /\ stdout = ""
    /\ exc = NoError
    /\ exit_status = Running
    /\ runs = n
    /\ fs0 = f

Init ==
    /\ argv \in [msg : CommitMsgs, base : BaseVersions]
    /\ fs \in [root : RootFiles, tcargo : TauriCargoFiles, tconf : TauriConfFiles]
    /\ Fresh(1, fs)
    /\ hist = << >>
    /\ scan = NoScan
    /\ call = NoCall

\* sys.exit(code) after printing msg.
Exit(code, msg) ==
    /\ pc' = "done"
    /\ exit_status' = code
    /\ stdout' = msg
    /\ exc' = exc

\* An uncaught exception: the interpreter prints the traceback and exits 1.
Raise(e) ==
    /\ pc' = "done"
    /\ exit_status' = 1
    /\ stdout' = stdout
    /\ exc' = e

Goto(label) ==
    /\ pc' = label
    /\ UNCHANGED << exit_status, stdout, exc >>

frame == << argv, runs, fs0, hist, scan, call >>

\* main() without the early exit of line 115.
Classify_NoEarlyExit ==
    /\ pc = "start"
    /\ IF argv.msg = Absent
       THEN /\ Exit(1, "")
            /\ UNCHANGED bump_type
       ELSE /\ bump_type' = get_bump_type_from_commit(argv.msg)
            /\ Goto("read")
    /\ UNCHANGED << fs, current_version, version_to_bump, new_version, updated, frame >>

\* Lines 105-115: the usage check and the classifier.
Classify ==
    /\ pc = "start"
    /\ IF argv.msg = Absent
       THEN /\ Exit(1, "")
            /\ UNCHANGED bump_type
       ELSE /\ bump_type' = get_bump_type_from_commit(argv.msg)
            /\ IF bump_type' = None THEN Exit(0, "") ELSE Goto("read")
    /\ UNCHANGED << fs, current_version, version_to_bump, new_version, updated, frame >>

\* Line 124: the current version, from the root manifest.
ReadCurrent ==
    /\ pc = "read"
    /\ LET v == get_current_version(fs.root)
       IN  IF v \in { FileNotFoundError, ValueError }
           THEN /\ Raise(v)
                /\ UNCHANGED current_version
           ELSE /\ current_version' = v
                /\ Goto("bump")
    /\ UNCHANGED << fs, bump_type, version_to_bump, new_version, updated, frame >>

\* main() bumping from the current version whatever base_version is.
Bump_FromCurrent ==
    /\ pc = "bump"
    /\ version_to_bump' = current_version
    /\ LET v == bump_version(version_to_bump', bump_type)
       IN  IF v = ValueError
           THEN /\ Raise(ValueError)
                /\ UNCHANGED new_version
           ELSE /\ new_version' = v
                /\ IF v = current_version
                   THEN Exit(0, "No version change")
                   ELSE Goto("root")
    /\ UNCHANGED << fs, bump_type, current_version, updated, frame >>

\* Lines 127-135: the version to bump from, the new version and the check
\* that it differs from the current one. An empty base_version is falsy.
Bump ==
    /\ pc = "bump"
    /\ version_to_bump' = IF argv.base # Absent /\ argv.base # << >>
                          THEN argv.base
                          ELSE current_version
    /\ LET v == bump_version(version_to_bump', bump_type)
       IN  IF v = ValueError
           THEN /\ Raise(ValueError)
                /\ UNCHANGED new_version
           ELSE /\ new_version' = v
                /\ IF v = current_version
                   THEN Exit(0, "No version change")
                   ELSE Goto("root")
    /\ UNCHANGED << fs, bump_type, current_version, updated, frame >>

\* Lines 138-140
UpdateRoot ==
    /\ pc = "root"
    /\ LET r == update_cargo_toml(fs.root, new_version)
       IN  /\ fs' = [fs EXCEPT !.root = r.content]
           /\ updated' = IF r.ret THEN Append(updated, "Cargo.toml") ELSE updated
    /\ Goto("tcargo")
    /\ UNCHANGED << bump_type, current_version, version_to_bump, new_version, frame >>

\* Lines 141-142
UpdateTauriCargo ==
    /\ pc = "tcargo"
    /\ IF fs.tcargo # Absent
       THEN LET r == update_cargo_toml(fs.tcargo, new_version)
            IN  /\ fs' = [fs EXCEPT !.tcargo = r.content]
                /\ updated' = IF r.ret THEN Append(updated, "src-tauri/Cargo.toml")
                                       ELSE updated
       ELSE UNCHANGED << fs, updated >>
    /\ Goto("tconf")
    /\ UNCHANGED << bump_type, current_version, version_to_bump, new_version, frame >>

\* Lines 143-144
UpdateTauriConf ==
    /\ pc = "tconf"
    /\ IF fs.tconf # NoDoc
       THEN LET r == update_tauri_conf(fs.tconf, new_version)
            IN  /\ fs' = [fs EXCEPT !.tconf = r.content]
                /\ updated' = IF r.ret
                              THEN Append(updated, "src-tauri/tauri.conf.json")
                              ELSE updated
                /\ IF r.exc # NoError THEN Raise(r.exc) ELSE Goto("report")
       ELSE /\ UNCHANGED << fs, updated >>
            /\ Goto("report")
    /\ UNCHANGED << bump_type, current_version, version_to_bump, new_version, frame >>

\* Lines 146-152
Report ==
    /\ pc = "report"
    /\ IF updated # << >>
       THEN Exit(0, "Version bumped")
       ELSE Exit(0, "No changes made")
    /\ UNCHANGED << fs, locals, frame >>

\* The tool is started again, with the same arguments, on the files the run
\* before left.
NextRun ==
    /\ pc = "done"
    /\ runs < MaxRuns
    /\ hist' = Append(hist, [stdout      |-> stdout,
                             exc         |-> exc,
                             exit_status |-> exit_status,
                             new_version |-> new_version,
                             updated     |-> updated,
                             before      |-> fs0,
                             after       |-> fs])
    /\ pc' = "start"
    /\ bump_type' = None
    /\ current_version' = Absent
    /\ version_to_bump' = Absent
    /\ new_version' = Absent
    /\ updated' = << >>
    /\ stdout' = ""
    /\ exc' = NoError
    /\ exit_status' = Running
    /\ runs' = runs + 1
    /\ fs0' = fs
    /\ UNCHANGED << argv, fs, scan, call >>

Main ==
    \/ Classify
    \/ ReadCurrent
    \/ Bump
    \/ UpdateRoot
    \/ UpdateTauriCargo
    \/ UpdateTauriConf
    \/ Report
    \/ NextRun

Next == Main

Spec == Init /\ [][Next]_vars

\* Only one run of main().
OneRun ==
    \/ Classify
    \/ ReadCurrent
    \/ Bump
    \/ UpdateRoot
    \/ UpdateTauriCargo
    \/ UpdateTauriConf
    \/ Report

\* ------------------------------------------- runs on generated messages

MsgLeads == { << >>, << " " >>, << "\t", "\n" >> }
MsgHeads ==
    { <<"r","e","l","e","a","s","e","(">>,
      <<"R","e","l","e","a","s","e","(">>,
      <<"R","E","L","E","A","S","E","(">>,
      <<"f","e","a","t","u","r","e","(">>,
      <<"F","e","a","T","u","r","e","(">>,
      <<"f","i","x","(">>,
      <<"F","i","x","(">>,
      <<"F","I","X","(">>,
      <<"f","i","x">>,
      <<"f","i","x"," ","(">>,
      <<"r","e","f","i","x","(">>,
      <<"c","h","o","r","e">>,
      <<"r","e","l","e","a","s","e","s","(">>,
      <<"f","e","a","t","u","r","e",":">>,
      << >> }
MsgTails == { << >>, <<"x",")",":"," ","y"," ">> }

GenMsgs == { l \o h \o t : l \in MsgLeads, h \in MsgHeads, t \in MsgTails }

InitClassify ==
    /\ argv \in [msg : GenMsgs, base : { Absent, V122 }]
    /\ fs \in [root   : { RootNormal, RootNoVersion, Absent },
               tcargo : { Absent, JoinLines(<< LPackage, LVer123 >>) },
               tconf  : { NoDoc,
                          Document("garbage", "", << >>),
                          Document("object", "compact",
                                   << Member("version", JStr(V123)) >>) }]
    /\ Fresh(1, fs)
    /\ hist = << >>
    /\ scan = NoScan
    /\ call = NoCall

SpecClassify == InitClassify /\ [][Next]_vars

\* ------------------------------------------- runs on generated versions

Comps == { 0, 1, 9, 10, 99, MaxComp }
Zeros == { << >>, << "0" >> }
Suffixes == { << >>, <<"-","b","e","t","a",".","1">>, <<".","4">> }

\* The text of a version: leading zeros, three components, a suffix.
GenVersion(z, a, b, c, suf) ==
    z \o Dec(a) \o << "." >> \o Dec(b) \o << "." >> \o Dec(c) \o suf

GenVersions ==
    { GenVersion(z, a, b, c, suf) :
        z \in Zeros, a \in Comps, b \in Comps, c \in Comps, suf \in Suffixes }

InitBump ==
    /\ argv \in [msg : { MsgFix, MsgFeature, MsgRelease }, base : GenVersions]
    /\ fs = [root   |-> RootNormal,
             tcargo |-> JoinLines(<< LPackage, LVer123 >>),
             tconf  |-> Document("object", "compact",
                                 << Member("version", JStr(V123)) >>)]
    /\ Fresh(1, fs)
    /\ hist = << >>
    /\ scan = NoScan
    /\ call = NoCall

SpecBump == InitBump /\ [][OneRun]_vars

\* ------------------------------- update_cargo_toml, one line at a time

LinePool == { LPackage, LPackageSp, LDeps, LName, LVer123, LVerIndented }

LineSeqs == UNION { [1..n -> LinePool] : n \in 1..MaxLines }

Idle ==
    /\ pc = "idle"
    /\ bump_type = None
    /\ current_version = Absent
    /\ version_to_bump = Absent
    /\ new_version = Absent
    /\ updated = << >>
    /\ stdout = ""
    /\ exc = NoError
    /\ exit_status = Running
    /\ runs = 0
    /\ fs0 = fs
    /\ hist = << >>
    /\ argv = [msg |-> Absent, base |-> Absent]

\* update_cargo_toml(root_cargo, new_version) has read the file and split it.
\* closed records that the scanner was inside the [package] section and left
\* it.
InitScan ==
    /\ \E ls \in LineSeqs :
           fs = [root |-> JoinLines(ls), tcargo |-> Absent, tconf |-> NoDoc]
    /\ scan \in [active      : { TRUE },
                 lines       : { SplitLines(fs.root) },
                 new_version : { V999, V123 },
                 i           : { 0 },
                 st          : { ScanInit },
                 closed      : { FALSE },
                 returned    : { FALSE }]
    /\ call = NoCall
    /\ Idle

\* Lines 75-88: one iteration of the loop.
ScanStep ==
    /\ scan.active
    /\ scan.i < Len(scan.lines)
    /\ LET st2 == ScanLine(scan.st, scan.lines[scan.i + 1], scan.new_version)
       IN  scan' = [scan EXCEPT
                       !.i = @ + 1,
                       !.st = st2,
                       !.closed = @ \/ (scan.st.in_package_section
                                        /\ ~st2.in_package_section)]
    /\ UNCHANGED << argv, fs, pc, locals, stdout, exc, exit_status, runs, fs0,
                    hist, call >>

\* Lines 90-92: the file is written if a line was rewritten.
ScanReturn ==
    /\ scan.active
    /\ scan.i = Len(scan.lines)
    /\ ~scan.returned
    /\ fs' = [fs EXCEPT !.root = ScanWrite(fs.root, scan.st)]
    /\ scan' = [scan EXCEPT !.returned = TRUE]
    /\ UNCHANGED << argv, pc, locals, stdout, exc, exit_status, runs, fs0,
                    hist, call >>

ScanNext ==
    \/ ScanStep
    \/ ScanReturn

SpecScan == InitScan /\ [][ScanNext]_vars

\* ---------------------------------------- update_tauri_conf, called twice

MaxCalls == 2
MaxMembers == 3

MemberPool ==
    { Member("version", JStr(V123)),
      Member("version", JStr(V124)),
      Member("version", JNum(<< "1" >>)),
      Member("productName", JStr(V123)) }

MemberSeqs == UNION { [1..n -> MemberPool] : n \in 0..MaxMembers }

Styles == { "compact", "indent4", DumpStyle }

InitConf ==
    /\ \E st \in Styles, ms \in MemberSeqs :
           fs = [root |-> Absent, tcargo |-> Absent,
                 tconf |-> Document("object", st, ms)]
    /\ call \in [active      : { TRUE },
                 new_version : { V123, V124 },
                 rets        : { << >> },
                 files       : { << fs.tconf >> }]
    /\ scan = NoScan
    /\ Idle

\* update_tauri_conf(tauri_conf, new_version) on the file as it is now; the
\* results and the file after each call are kept.
CallUpdateTauriConf ==
    /\ call.active
    /\ Len(call.rets) < MaxCalls
    /\ LET r == update_tauri_conf(fs.tconf, call.new_version)
       IN  /\ fs' = [fs EXCEPT !.tconf = r.content]
           /\ call' = [call EXCEPT !.rets = Append(@, r.ret),
                                   !.files = Append(@, r.content)]
    /\ UNCHANGED << argv, pc, locals, stdout, exc, exit_status, runs, fs0,
                    hist, scan >>

SpecConf == InitConf /\ [][CallUpdateTauriConf]_vars

\* ================================================================== claims

\* The message m, after its leading whitespace, begins with p whatever the
\* case of its letters.
BeginsWith(m, p) ==
    \E i \in 1..Len(m) :
        /\ \A j \in 1..(i - 1) : IsSpace(m[j])
        /\ i + Len(p) - 1 <= Len(m)
        /\ \A k \in 1..Len(p) : LowerChar(m[i + k - 1]) = p[k]

\* The category the convention gives a message.
Category(m) ==
    IF BeginsWith(m, <<"r","e","l","e","a","s","e","(">>) THEN "major"
    ELSE IF BeginsWith(m, <<"f","e","a","t","u","r","e","(">>) THEN "minor"
    ELSE IF BeginsWith(m, <<"f","i","x","(">>) THEN "patch"
    ELSE None

\* C1: for every commit message that begins (after trimming and lowercasing)
\* with none of 'release(', 'feature(' and 'fix(', the run exits with code 0,
\* prints nothing, and the three manifests are at every moment what they were,
\* whether or not they exist or hold a version; so are they after a second
\* run.
C1_NoBumpNoEffect ==
    (argv.msg # Absent /\ Category(argv.msg) = None) =>
        /\ fs = fs0
        /\ \A n \in 1..Len(hist) :
               hist[n].after = hist[n].before /\ hist[n].exit_status = 0
        /\ pc \in { "start", "done" }
        /\ pc = "done" => exit_status = 0 /\ exc = NoError /\ stdout = ""

C1_Witness ==
    /\ pc = "done"
    /\ runs = 2
    /\ argv.msg = <<"\t","\n","f","i","x"," ","(","x",")",":"," ","y"," ">>
    /\ argv.base = V122
    /\ fs.root = Absent
    /\ fs.tconf = Document("garbage", "", << >>)
    /\ exit_status = 0

\* C8: the classifier gives major to the messages that begin with 'release(',
\* minor to those that begin with 'feature(', patch to those that begin with
\* 'fix(' and None to all others, where the case of the letters and the
\* whitespace around the message do not count; two messages that are equal
\* after trimming and lowercasing get the same category.
C8_Classifier ==
    (pc \notin { "start", "idle" } /\ argv.msg # Absent) =>
        /\ bump_type = Category(argv.msg)
        /\ \A m \in GenMsgs :
               Lower(Strip(m)) = Lower(Strip(argv.msg)) =>
                   get_bump_type_from_commit(m) = bump_type

C8_Witness ==
    /\ pc = "read"
    /\ argv.msg = <<" ","R","e","l","e","a","s","e","(","x",")",":"," ","y"," ">>
    /\ bump_type = "major"

\* The components a bump of category t gives the version a.b.c, and their
\* text.
Target(t, a, b, c) ==
    IF t = "major" THEN << a + 1, 0, 0 >>
    ELSE IF t = "minor" THEN << a, b + 1, 0 >>
    ELSE << a, b, c + 1 >>

Render(v) == Dec(v[1]) \o << "." >> \o Dec(v[2]) \o << "." >> \o Dec(v[3])

\* C2: when the version bumped from is the text of three integers a.b.c
\* (leading zeros allowed) followed by any suffix, the new version is exactly
\* the text of the three integers in which the component of the category is
\* one more, the less significant ones are 0 and the more significant ones
\* are as in the input; nothing of the suffix is in it.
C2_BumpArithmetic ==
    (pc = "root" \/ (pc = "done" /\ stdout = "No version change")) =>
        \A z \in Zeros, a \in Comps, b \in Comps, c \in Comps, suf \in Suffixes :
            version_to_bump = GenVersion(z, a, b, c, suf) =>
                new_version = Render(Target(bump_type, a, b, c))

C2_Witness ==
    /\ pc = "root"
    /\ bump_type = "minor"
    /\ version_to_bump = <<"0","9",".","9","9",".","1","0","9","-","b","e","t","a",".","1">>
    /\ new_version = <<"9",".","1","0","0",".","0">>

\* The run before the current one ended normally, having rewritten the root
\* manifest and left it reading the version it computed.
PreviousRunBumpedRoot ==
    /\ runs >= 2
    /\ Len(hist) = runs - 1
    /\ hist[runs - 1].stdout = "Version bumped"
    /\ hist[runs - 1].exit_status = 0
    /\ \E k \in 1..Len(hist[runs - 1].updated) :
           hist[runs - 1].updated[k] = "Cargo.toml"
    /\ get_current_version(hist[runs - 1].after.root) = hist[runs - 1].new_version

\* C3 as stated: a second run with the same commit message and the same
\* (possibly absent) base_version, after a run that bumped the root manifest
\* to the target version, prints 'No version change' and writes no file.
C3_IdempotentAnyBase ==
    (pc = "done" /\ PreviousRunBumpedRoot) =>
        /\ stdout = "No version change"
        /\ exit_status = 0
        /\ fs = fs0

\* C3, amended: a second run with the same commit message and the same
\* non-empty base_version, after a run that bumped the root manifest to the
\* target version, prints 'No version change', exits 0 and writes no file.
C3_IdempotentWithBase ==
    (pc = "done" /\ PreviousRunBumpedRoot /\ argv.base \notin { Absent, << >> }) =>
        /\ stdout = "No version change"
        /\ exit_status = 0
        /\ fs = fs0

C3_Witness ==
    /\ pc = "done"
    /\ PreviousRunBumpedRoot
    /\ argv.base = V123
    /\ argv.msg = MsgFix
    /\ hist[1].before.root = RootNormal
    /\ current_version = V124
    /\ fs.tconf.kind = "object"
    /\ stdout = "No version change"

\* A line is the [package] header, or another bracketed header.
IsPackageHeader(line) == Strip(line) = PackageHeader
IsOtherHeader(line) ==
    /\ Strip(line) # << >>
    /\ Strip(line)[1] = "["
    /\ ~IsPackageHeader(line)

\* Line i of lines lies in a [package] section: a [package] header is at or
\* before it with no other header between the two.
InPackage(lines, i) ==
    \E h \in 1..i :
        /\ IsPackageHeader(lines[h])
        /\ \A k \in (h + 1)..i : ~IsOtherHeader(lines[k])

\* The version lines of the [package] sections of lines.
PackageVersionLines(lines) ==
    { j \in 1..Len(lines) : InPackage(lines, j) /\ LineMatchesVersion(lines[j]) }

\* The quoted value of the first version line of the [package] section of a
\* manifest, Absent when there is none.
PackageVersion(content) ==
    LET lines == SplitLines(content)
        js    == PackageVersionLines(lines)
    IN  IF js = {} THEN Absent
        ELSE LET j == CHOOSE k \in js : \A n \in js : k <= n
                 m == MatchVersionAt(lines[j], SkipSpace(lines[j], 1))
             IN  SubSeq(lines[j], m.vfrom, m.vto)

\* The value of the last member of pairs with the key (JNull when there is
\* none): what a JSON object with these members holds at key.
LastValue(pairs, key) ==
    LET ks == { k \in 1..Len(pairs) : pairs[k].key = key }
    IN  IF ks = {} THEN JNull
        ELSE pairs[CHOOSE k \in ks : \A n \in ks : n <= k].val

Keys(pairs) == { pairs[k].key : k \in 1..Len(pairs) }

\* C4: after a run that reached the update step and exited normally, the
\* root manifest reads the new version (by get_current_version), and so do
\* the [package] section of src-tauri/Cargo.toml, when that file exists and
\* its [package] section has a version line, and the 'version' key of
\* src-tauri/tauri.conf.json, when that file exists.
C4_ManifestsInSync ==
    (pc = "done" /\ stdout \in { "Version bumped", "No changes made" }) =>
        /\ get_current_version(fs.root) = new_version
        /\ (fs.tcargo # Absent /\ PackageVersion(fs.tcargo) # Absent) =>
               PackageVersion(fs.tcargo) = new_version
        /\ fs.tconf # NoDoc => LastValue(fs.tconf.pairs, "version") = JStr(new_version)

\* C5: once the new version differs from the current one, the writer of the
\* root manifest reports a replacement: 'Cargo.toml' is in the updated list
\* and 'No changes made' is never printed.
C5_RootAlwaysUpdated ==
    /\ pc \in { "tcargo", "tconf", "report" } =>
           \E k \in 1..Len(updated) : updated[k] = "Cargo.toml"
    /\ stdout # "No changes made"

\* C6: update_cargo_toml changes at most one line, the first version line of
\* the [package] section, and keeps the number of lines; with no such line it
\* returns False and leaves the file as it was.
C6_OnlyFirstVersionLine ==
    (scan.active /\ scan.returned) =>
        LET out == SplitLines(fs.root)
            js  == PackageVersionLines(scan.lines)
        IN  /\ Len(out) = Len(scan.lines)
            /\ js = {} => ~scan.st.version_updated /\ fs.root = fs0.root
            /\ js # {} =>
                   /\ scan.st.version_updated
                   /\ \A j \in 1..Len(out) :
                          j # (CHOOSE k \in js : \A n \in js : k <= n) =>
                              out[j] = scan.lines[j]

\* C7: update_tauri_conf on a JSON object: when its 'version' is already the
\* new version it returns False and the file stays byte for byte what it was;
\* otherwise it returns True and the file written holds the keys and values
\* of the input, with 'version' being the new version, in the layout of
\* json.dumps(indent=2) and a newline. Every later call with the same new
\* version returns False and leaves the file alone.
C7_DocumentWriter ==
    call.active =>
        /\ Len(call.rets) >= 1 =>
               IF LastValue(call.files[1].pairs, "version") = JStr(call.new_version)
               THEN ~call.rets[1] /\ call.files[2] = call.files[1]
               ELSE /\ call.rets[1]
                    /\ call.files[2].kind = "object"
                    /\ call.files[2].style = DumpStyle
                    /\ Keys(call.files[2].pairs) =
                           Keys(call.files[1].pairs) \cup { "version" }
                    /\ \A key \in Keys(call.files[1].pairs) \ { "version" } :
                           LastValue(call.files[2].pairs, key) =
                               LastValue(call.files[1].pairs, key)
                    /\ LastValue(call.files[2].pairs, "version") =
                           JStr(call.new_version)
        /\ \A n \in 2..Len(call.rets) :
               ~call.rets[n] /\ call.files[n + 1] = call.files[n]
        /\ fs.tconf = call.files[Len(call.files)]

C7_Witness ==
    /\ call.active
    /\ Len(call.rets) = 2
    /\ call.rets[1]
    /\ ~call.rets[2]
    /\ call.new_version = V124
    /\ call.files[1] = Document("object", "compact",
                                << Member("version", JStr(V124)),
                                   Member("productName", JStr(V123)),
                                   Member("version", JStr(V123)) >>)

\* C9 as stated: once the scanner has left the [package] section at another
\* bracketed header it is never inside again, and no line after that is
\* rewritten.
C9_NeverReEnters ==
    (scan.active /\ scan.closed) => ~scan.st.in_package_section

\* C9, amended: the scanner has two states and is inside after a line exactly
\* when a line that is '[package]' after trimming is at or before it with no
\* other bracketed header between them; so it is inside again after a
\* repeated [package] header, and the lines rewritten are exactly the version
\* lines for which this holds.
C9_ReEntersOnRepeatedHeader ==
    scan.active =>
        /\ scan.st.in_package_section = InPackage(scan.lines, scan.i)
        /\ Len(scan.st.updated_lines) = scan.i
        /\ \A j \in 1..scan.i :
               scan.st.updated_lines[j] =
                   IF InPackage(scan.lines, j) /\ LineMatchesVersion(scan.lines[j])
                   THEN SubVersion(scan.lines[j], scan.new_version, 1)
                   ELSE scan.lines[j]
        /\ scan.st.version_updated =
               (\E j \in 1..scan.i : j \in PackageVersionLines(scan.lines))

C9_Witness ==
    /\ scan.active
    /\ scan.closed
    /\ scan.i = 4
    /\ scan.st.in_package_section
    /\ scan.lines = << LPackage, LDeps, LPackageSp, LVer123 >>
    /\ scan.new_version = V999
    /\ scan.st.updated_lines[4] = <<"v","e","r","s","i","o","n"," ","="," ","\"","9",".","9",".","9","\"">>

\* C10, its first part: a run ends with an uncaught ValueError and a
\* non-zero exit code, before any writer is invoked and so with the three
\* files as they were, when the root manifest has no version line or the
\* version to bump from does not begin with three dot-separated integers.
C10_ErrorsBeforeWriters ==
    /\ exc = ValueError => fs = fs0 /\ updated = << >> /\ exit_status = 1
    /\ (/\ pc = "done"
        /\ bump_type # None
        /\ \/ get_current_version(fs0.root) = ValueError
           \/ /\ version_to_bump # Absent
              /\ parse_version(version_to_bump) = << >>)
       => exc = ValueError /\ exit_status = 1 /\ fs = fs0

\* C10: the first part, and a parse failure of tauri.conf.json comes after
\* the root manifest was rewritten and leaves the root manifest at the new
\* version.
C10_ErrorHandling ==
    /\ C10_ErrorsBeforeWriters
    /\ exc = JSONDecodeError =>
           /\ \E k \in 1..Len(updated) : updated[k] = "Cargo.toml"
           /\ get_current_version(fs.root) = new_version

====
